---------------------------- MODULE Spec2Model ----------------------------
(***************************************************************************)
(* TradingView -> server (queue) -> MT5 EA bridge.                         *)
(* A model of src/webhook_mt5_server_with_db.py: the in-memory order_queue *)
(* guarded by queue_lock, the three Flask handlers (webhook, pending, ack) *)
(* and the two optional persistence sinks (the MySQL table `trades` and    *)
(* the Google sheet).                                                      *)
(*                                                                         *)
(* Spec     : the handlers run one request at a time (each handler is one  *)
(*            action, sink calls included).                                *)
(* SpecConc : several request threads run the queue helpers step by step,  *)
(*            interleaved, under queue_lock.                               *)
(*                                                                         *)
(* Pass-through fields of a trade (sl, tp, volume, message, extra) are     *)
(* never read by the queue helpers and are left out of the trade record.   *)
(***************************************************************************)
EXTENDS Integers, Sequences, FiniteSets, TLC

\* ------------------------------------------------------------------ bounds
\* Requests handled in one behaviour of Spec.
MaxReq == 3
\* Largest value of the server clock (whole seconds of datetime.utcnow()).
MaxClock == 1
\* Request threads of SpecConc, and the helper calls they start in one behaviour.
NThreads == 2
MaxCalls == 3

\* --------------------------------------------------------------- the state
VARIABLES
    order_queue,      \* the in-memory list of trades (line 64)
    trades,           \* the MySQL table `trades`: id -> row
    sheet,            \* the rows of the Google worksheet, oldest first
    clock,            \* datetime.utcnow(), in whole seconds
    WRITE_TO_DB,      \* behaviour flag (line 55)
    WRITE_TO_SHEET,   \* behaviour flag (line 54, cleared when the sheet is unusable)
    last,             \* the last request and the response it got
    nreq,             \* number of requests handled so far
    enqueued,         \* history: the trades passed to add_order_to_queue, in call order
    returned,         \* history: the trades (oid) that GET /pending has returned
    acked,            \* history: the trades (oid) that GET /pending/ack has removed
    queue_lock,       \* threading.Lock() (line 65): the thread holding it, 0 when free
    thr,              \* per request thread: where it is in a queue helper, its locals
    ncalls,           \* number of helper calls started so far
    serial_queue      \* history: the queue of the serial run (calls in lock order)

\* The state of the sinks and of the one-request-at-a-time handlers.
seqvars == <<trades, sheet, clock, WRITE_TO_DB, WRITE_TO_SHEET, last, nreq,
             enqueued, returned, acked>>
\* The state of the request threads.
concvars == <<queue_lock, thr, ncalls, serial_queue>>

vars == <<order_queue, seqvars, concvars>>

\* ------------------------------------------------------------ plain values
\* Python's None where a string may stand (a sheet cell, a missing key).
NoneVal == "<None>"
\* SQL NULL in a DATETIME column.
Null == -1

\* JSON values of a payload key: the key is absent, or holds a string, a number or null.
Absent == [t |-> "absent"]
JNull == [t |-> "null"]
JStr(s) == [t |-> "str", s |-> s]
JNum(n) == [t |-> "num", n |-> n]

\* The payload values the model sends.
IdInputs == {Absent, JStr(""), JStr("a")}
ActionInputs == {Absent, JStr(""), JStr("buy")}
SymbolInputs == {Absent, JStr(""), JStr("EURUSD")}

\* str(int): the decimal numeral.
Numeral(n) ==
    CASE n = 0 -> "0"
      [] n = 1 -> "1"
      [] n = 2 -> "2"
      [] OTHER -> "3"

\* str(v) of a JSON value.
Str(v) ==
    CASE v.t = "str" -> v.s
      [] v.t = "num" -> Numeral(v.n)
      [] OTHER -> "None"

\* s.upper()
Upper(s) ==
    CASE s = "buy" -> "BUY"
      [] s = "none" -> "NONE"
      [] s = "None" -> "NONE"
      [] OTHER -> s

\* f"tv-{int(datetime.utcnow().timestamp())}"
TvId(now) ==
    CASE now = 0 -> "tv-0"
      [] now = 1 -> "tv-1"
      [] now = 2 -> "tv-2"
      [] OTHER -> "tv-3"

\* data.get(key, default) then str(): the default is used only when the key is absent.
GetStr(v, default) == IF v.t = "absent" THEN default ELSE Str(v)

\* data.get("symbol"): the value itself, None when the key is absent or null.
GetSymbol(v) == IF v.t = "str" THEN v.s ELSE NoneVal

\* Python truthiness of a string or None.
Truthy(s) == s # "" /\ s # NoneVal

\* The id values GET /pending/ack is called with (request.args.get("id")):
\* <<>> is a request without the parameter.
AckArgs == {<<>>, <<"">>, <<"a">>, <<"tv-0">>, <<"tv-1">>, <<"zz">>}


\* ------------------------------------------------------------ queue helpers
\* A trade is the dict built by webhook (lines 260-269); oid is the identity of
\* the dict object (the queue holds references), numbered in creation order.
Trade(oid, id, action, symbol) ==
    [oid |-> oid, id |-> id, action |-> action, symbol |-> symbol]

\* o.get("status"): the trade dict has no such key unless some code sets it.
StatusOf(o) == IF "status" \in DOMAIN o THEN o.status ELSE NoneVal

\* s without its i-th element: list.pop(i).
RemoveAt(s, i) == [k \in 1..(Len(s) - 1) |-> IF k < i THEN s[k] ELSE s[k + 1]]

\* A faulty add_order_to_queue: order_queue.insert(0, trade).
QueueAppend_front(q, trade) == <<trade>> \o q

\* add_order_to_queue, the part under queue_lock: order_queue.append(trade).
QueueAppend(q, trade) == Append(q, trade)

\* A faulty get_next_order: order_queue[-1], the newest order instead of the oldest.
get_next_order_last(q) == IF q # <<>> THEN <<q[Len(q)]>> ELSE <<>>

\* get_next_order: order_queue[0] if order_queue else None (<<>> is None).
get_next_order(q) == IF q # <<>> THEN <<q[1]>> ELSE <<>>

\* The index ack_order's loop stops at: the first order whose id is order_id, 0 if none.
AckIndex(q, order_id) ==
    IF \E i \in 1..Len(q) : q[i].id = order_id
    THEN CHOOSE i \in 1..Len(q) :
            /\ q[i].id = order_id
            /\ \A k \in 1..(i - 1) : q[k].id # order_id
    ELSE 0

\* A faulty ack_order: the pop is missing, the matching order stays in the queue.
ack_order_keeps(q, order_id) ==
    [found |-> AckIndex(q, order_id) # 0, queue |-> q]

\* ack_order: pops the first order whose id is order_id and returns True, else False.
ack_order(q, order_id) ==
    LET i == AckIndex(q, order_id)
    IN  IF i # 0
        THEN [found |-> TRUE, queue |-> RemoveAt(q, i)]
        ELSE [found |-> FALSE, queue |-> q]

\* ------------------------------------------------------------------- sinks
\* A row of the table `trades` (lines 97-110), keyed by id.
Row(trade, status, now) ==
    [action |-> trade.action, symbol |-> trade.symbol, status |-> status,
     created_at |-> now, sent_to_ea_at |-> Null, executed_at |-> Null]

\* insert_trade_db: nothing when WRITE_TO_DB is off; get_db_conn raises when the
\* server is unreachable (dbOk false); INSERT raises on a duplicate primary key.
insert_trade_db(tr, trade, now, dbOk) ==
    IF ~WRITE_TO_DB THEN [raised |-> FALSE, trades |-> tr]
    ELSE IF ~dbOk \/ trade.id \in DOMAIN tr THEN [raised |-> TRUE, trades |-> tr]
    ELSE [raised |-> FALSE,
          trades |-> [i \in DOMAIN tr \cup {trade.id} |->
                         IF i = trade.id THEN Row(trade, "queued", now) ELSE tr[i]]]

\* update_trade_status: UPDATE trades SET status=%s, executed_at=%s WHERE id=%s
\* (a no-op when no row has the id); get_db_conn raises when unreachable.
update_trade_status(tr, trade_id, status_field, now, dbOk) ==
    IF ~WRITE_TO_DB THEN [raised |-> FALSE, trades |-> tr]
    ELSE IF ~dbOk THEN [raised |-> TRUE, trades |-> tr]
    ELSE [raised |-> FALSE,
          trades |-> [i \in DOMAIN tr |->
                         IF i = trade_id
                         THEN [tr[i] EXCEPT !.status = status_field, !.executed_at = now]
                         ELSE tr[i]]]

\* A row of the worksheet.
SheetRow(id, event, action, symbol) ==
    [id |-> id, event |-> event, action |-> action, symbol |-> symbol]

\* append_sheet_row: nothing when the sheet is off; a failing append_row is caught
\* and logged inside (shOk false), so it never raises.
append_sheet_row(sh, row, shOk) ==
    IF ~WRITE_TO_SHEET THEN sh
    ELSE IF shOk THEN Append(sh, row) ELSE sh

\* add_order_to_queue after the lock is released (lines 158-164): the sink calls;
\* an exception of insert_trade_db skips the sheet row and is logged.
NotifyQueued(tr, sh, trade, now, dbOk, shOk) ==
    LET ins == insert_trade_db(tr, trade, now, dbOk)
    IN  IF ins.raised
        THEN [trades |-> tr, sheet |-> sh]
        ELSE [trades |-> ins.trades,
              sheet |-> append_sheet_row(
                  sh, SheetRow(trade.id, "queued", trade.action, trade.symbol), shOk)]

\* ---------------------------------------------------------------- handlers
\* What a handler leaves behind: the queue, the sinks, the HTTP response (status
\* code, the order in the body as a 0/1-element sequence, the id in the body),
\* the trades it passed to add_order_to_queue and the orders it returned.
Out(q, tr, sh, code, order, id, enq) ==
    [queue |-> q, trades |-> tr, sheet |-> sh, code |-> code, order |-> order,
     id |-> id, enq |-> enq]

\* The table with no rows.
EmptyTable == [i \in {} |-> Row(Trade(0, "", "", ""), "", 0)]

\* A faulty webhook: the validation tests the action alone, `if not trade["action"]:`.
webhook_actionOnly(jsonOk, secretOk, idIn, actionIn, symbolIn, dbOk, shOk) ==
    LET trade == Trade(Len(enqueued) + 1,
                       GetStr(idIn, TvId(clock)),
                       Upper(GetStr(actionIn, "")),
                       GetSymbol(symbolIn))
        sinks == NotifyQueued(trades, sheet, trade, clock, dbOk, shOk)
    IN  IF ~jsonOk
        THEN Out(order_queue, trades, sheet, 400, <<>>, NoneVal, <<>>)
        ELSE IF ~secretOk
        THEN Out(order_queue, trades, sheet, 403, <<>>, NoneVal, <<>>)
        ELSE IF trade.action = ""
        THEN Out(order_queue, trades, sheet, 400, <<>>, NoneVal, <<>>)
        ELSE Out(QueueAppend(order_queue, trade), sinks.trades, sinks.sheet,
                 200, <<>>, trade.id, <<trade>>)

\* POST /webhook (lines 249-276).
webhook(jsonOk, secretOk, idIn, actionIn, symbolIn, dbOk, shOk) ==
    LET trade == Trade(Len(enqueued) + 1,
                       GetStr(idIn, TvId(clock)),
                       Upper(GetStr(actionIn, "")),
                       GetSymbol(symbolIn))
        sinks == NotifyQueued(trades, sheet, trade, clock, dbOk, shOk)
    IN  IF ~jsonOk
        THEN Out(order_queue, trades, sheet, 400, <<>>, NoneVal, <<>>)
        ELSE IF ~secretOk
        THEN Out(order_queue, trades, sheet, 403, <<>>, NoneVal, <<>>)
        ELSE IF trade.action = "" \/ ~Truthy(trade.symbol)
        THEN Out(order_queue, trades, sheet, 400, <<>>, NoneVal, <<>>)
        ELSE Out(QueueAppend(order_queue, trade), sinks.trades, sinks.sheet,
                 200, <<>>, trade.id, <<trade>>)

\* A faulty pending: the sinks are notified before `if order:` is tested, so an
\* empty queue writes a `sent_to_ea` row for no order.
pending_notifyFirst(secretOk, dbOk, shOk) ==
    LET order == get_next_order(order_queue)
        id == IF order = <<>> THEN NoneVal ELSE order[1].id
        upd == update_trade_status(trades, id, "sent_to_ea", clock, dbOk)
        sh == append_sheet_row(sheet, SheetRow(id, "sent_to_ea", NoneVal, NoneVal), shOk)
    IN  IF ~secretOk
        THEN Out(order_queue, trades, sheet, 403, <<>>, NoneVal, <<>>)
        ELSE IF upd.raised
        THEN Out(order_queue, trades, sheet, 500, <<>>, NoneVal, <<>>)
        ELSE Out(order_queue, upd.trades, sh,
                 IF order = <<>> THEN 204 ELSE 200, order, NoneVal, <<>>)

\* GET /pending (lines 278-290). update_trade_status is called outside any try:
\* when it raises, Flask answers 500 and the sheet row is not written.
pending(secretOk, dbOk, shOk) ==
    LET order == get_next_order(order_queue)
        upd == update_trade_status(trades, order[1].id, "sent_to_ea", clock, dbOk)
    IN  IF ~secretOk
        THEN Out(order_queue, trades, sheet, 403, <<>>, NoneVal, <<>>)
        ELSE IF order = <<>>
        THEN Out(order_queue, trades, sheet, 204, <<>>, NoneVal, <<>>)
        ELSE IF upd.raised
        THEN Out(order_queue, trades, sheet, 500, <<>>, NoneVal, <<>>)
        ELSE Out(order_queue, upd.trades,
                 append_sheet_row(sheet,
                     SheetRow(order[1].id, "sent_to_ea", order[1].action, order[1].symbol),
                     shOk),
                 200, order, NoneVal, <<>>)

\* A faulty ack: the sinks are notified before the result of ack_order is tested,
\* so an id that matches nothing is still recorded as executed.
ack_notifyFirst(secretOk, arg, dbOk, shOk) ==
    LET popped == ack_order(order_queue, arg[1])
        upd == update_trade_status(trades, arg[1], "executed", clock, dbOk)
        sh == append_sheet_row(sheet, SheetRow(arg[1], "executed", NoneVal, NoneVal), shOk)
    IN  IF ~secretOk
        THEN Out(order_queue, trades, sheet, 403, <<>>, NoneVal, <<>>)
        ELSE IF arg = <<>> \/ arg = <<"">>
        THEN Out(order_queue, trades, sheet, 400, <<>>, NoneVal, <<>>)
        ELSE IF upd.raised
        THEN Out(popped.queue, trades, sheet, 500, <<>>, NoneVal, <<>>)
        ELSE Out(popped.queue, upd.trades, sh,
                 IF popped.found THEN 200 ELSE 404, <<>>, NoneVal, <<>>)

\* GET /pending/ack (lines 292-307). arg is request.args.get("id"): <<>> is None.
\* update_trade_status is called outside any try, after ack_order removed the order.
ack(secretOk, arg, dbOk, shOk) ==
    LET popped == ack_order(order_queue, arg[1])
        upd == update_trade_status(trades, arg[1], "executed", clock, dbOk)
    IN  IF ~secretOk
        THEN Out(order_queue, trades, sheet, 403, <<>>, NoneVal, <<>>)
        ELSE IF arg = <<>> \/ arg = <<"">>
        THEN Out(order_queue, trades, sheet, 400, <<>>, NoneVal, <<>>)
        ELSE IF ~popped.found
        THEN Out(order_queue, trades, sheet, 404, <<>>, NoneVal, <<>>)
        ELSE IF upd.raised
        THEN Out(popped.queue, trades, sheet, 500, <<>>, NoneVal, <<>>)
        ELSE Out(popped.queue, upd.trades,
                 append_sheet_row(sheet,
                     SheetRow(arg[1], "executed", NoneVal, NoneVal), shOk),
                 200, <<>>, NoneVal, <<>>)

\* ------------------------------------------------- one request at a time
\* The request just handled and its response.
Last(op, out) == [op |-> op, code |-> out.code, order |-> out.order]

\* The identities of the trades in a list.
Oids(q) == {q[i].oid : i \in 1..Len(q)}

\* A handler has run: its effects and its response become the state.
Commit(op, out) ==
    /\ order_queue' = out.queue
    /\ trades' = out.trades
    /\ sheet' = out.sheet
    /\ last' = Last(op, out)
    /\ nreq' = nreq + 1
    /\ enqueued' = enqueued \o out.enq
    /\ returned' = returned \cup Oids(out.order)
    /\ acked' = IF op = "ack" THEN acked \cup (Oids(order_queue) \ Oids(out.queue))
                 ELSE acked
    /\ UNCHANGED <<clock, WRITE_TO_DB, WRITE_TO_SHEET>>
    /\ UNCHANGED concvars

\* No request thread is inside a helper.
Idle == [pc |-> "idle", op |-> "none", trade |-> <<>>, order_id |-> "", i |-> 0,
         result |-> [ok |-> FALSE, order |-> <<>>, raised |-> FALSE],
         expect |-> [ok |-> FALSE, order |-> <<>>, raised |-> FALSE]]

Threads == 1..NThreads

InitConc ==
    /\ queue_lock = 0
    /\ thr = [t \in Threads |-> Idle]
    /\ ncalls = 0
    /\ serial_queue = <<>>

Init ==
    /\ InitConc
    /\ order_queue = <<>>
    /\ trades = EmptyTable
    /\ sheet = <<>>
    /\ clock = 0
    /\ WRITE_TO_DB \in BOOLEAN
    /\ WRITE_TO_SHEET \in BOOLEAN
    /\ last = [op |-> "none", code |-> 0, order |-> <<>>]
    /\ nreq = 0
    /\ enqueued = <<>>
    /\ returned = {}
    /\ acked = {}

\* The outcomes of a sink call that a request can meet: a sink that is switched
\* off is never called.
DbOutcomes == IF WRITE_TO_DB THEN BOOLEAN ELSE {TRUE}
SheetOutcomes == IF WRITE_TO_SHEET THEN BOOLEAN ELSE {TRUE}

\* The requests: a body that is not JSON, a wrong secret, a payload with every
\* id, and a payload with every action and symbol.
WebhookRequests ==
    {[jsonOk |-> FALSE, secretOk |-> TRUE, id |-> Absent, action |-> Absent,
      symbol |-> Absent],
     [jsonOk |-> TRUE, secretOk |-> FALSE, id |-> Absent, action |-> Absent,
      symbol |-> Absent]}
    \cup [jsonOk : {TRUE}, secretOk : {TRUE}, id : IdInputs, action : {JStr("buy")},
          symbol : {JStr("EURUSD")}]
    \cup [jsonOk : {TRUE}, secretOk : {TRUE}, id : {JStr("a")}, action : ActionInputs,
          symbol : SymbolInputs]
AckRequests ==
    {[secretOk |-> FALSE, arg |-> <<>>]} \cup [secretOk : {TRUE}, arg : AckArgs]

Webhook ==
    /\ nreq < MaxReq
    /\ \E r \in WebhookRequests, dbOk \in DbOutcomes, shOk \in SheetOutcomes :
          Commit("webhook",
                 webhook(r.jsonOk, r.secretOk, r.id, r.action, r.symbol, dbOk, shOk))

Pending ==
    /\ nreq < MaxReq
    /\ \E secretOk \in BOOLEAN, dbOk \in DbOutcomes, shOk \in SheetOutcomes :
          Commit("pending", pending(secretOk, dbOk, shOk))

Ack ==
    /\ nreq < MaxReq
    /\ \E r \in AckRequests, dbOk \in DbOutcomes, shOk \in SheetOutcomes :
          Commit("ack", ack(r.secretOk, r.arg, dbOk, shOk))

\* A second passes on the server clock.
Tick ==
    /\ clock < MaxClock
    /\ clock' = clock + 1
    /\ UNCHANGED <<order_queue, trades, sheet, WRITE_TO_DB, WRITE_TO_SHEET,
                   last, nreq, enqueued, returned, acked>>
    /\ UNCHANGED concvars

Next == Webhook \/ Pending \/ Ack \/ Tick

Spec == Init /\ [][Next]_vars

\* -------------------------------------------------- concurrent request threads
\* The ids the threads' calls carry.
ConcIds == {"a", "b"}

\* What a helper call gives back: ack_order's True/False, get_next_order's order
\* (<<>> is None), or an exception that escaped.
Result(ok, order, raised) == [ok |-> ok, order |-> order, raised |-> raised]

\* A faulty helper: the body runs without taking queue_lock.
CanAcquire_noLock(t) == TRUE

\* `with queue_lock:` blocks until no thread holds the lock.
CanAcquire(t) == queue_lock = 0

\* With the sinks switched off (the defaults of lines 54-55) the sink part of
\* add_order_to_queue does nothing; the threads run the queue helpers alone.
InitC ==
    /\ InitConc
    /\ order_queue = <<>>
    /\ trades = EmptyTable
    /\ sheet = <<>>
    /\ clock = 0
    /\ WRITE_TO_DB = FALSE
    /\ WRITE_TO_SHEET = FALSE
    /\ last = [op |-> "none", code |-> 0, order |-> <<>>]
    /\ nreq = 0
    /\ enqueued = <<>>
    /\ returned = {}
    /\ acked = {}

\* A request thread enters add_order_to_queue(trade).
StartAdd(t) ==
    /\ thr[t].pc = "idle"
    /\ ncalls < MaxCalls
    /\ \E id \in ConcIds :
          thr' = [thr EXCEPT ![t] = [Idle EXCEPT !.pc = "lock", !.op = "add",
                      !.trade = <<Trade(ncalls + 1, id, "BUY", "EURUSD")>>]]
    /\ ncalls' = ncalls + 1
    /\ UNCHANGED <<order_queue, queue_lock, serial_queue, seqvars>>

\* A request thread enters get_next_order().
StartGet(t) ==
    /\ thr[t].pc = "idle"
    /\ ncalls < MaxCalls
    /\ thr' = [thr EXCEPT ![t] = [Idle EXCEPT !.pc = "lock", !.op = "get"]]
    /\ ncalls' = ncalls + 1
    /\ UNCHANGED <<order_queue, queue_lock, serial_queue, seqvars>>

\* A request thread enters ack_order(order_id).
StartAck(t) ==
    /\ thr[t].pc = "idle"
    /\ ncalls < MaxCalls
    /\ \E id \in ConcIds :
          thr' = [thr EXCEPT ![t] = [Idle EXCEPT !.pc = "lock", !.op = "ack",
                                                 !.order_id = id]]
    /\ ncalls' = ncalls + 1
    /\ UNCHANGED <<order_queue, queue_lock, serial_queue, seqvars>>

\* `with queue_lock:` (lines 156, 167, 175): the thread gets the lock. The serial
\* run performs the whole call here, on serial_queue.
Acquire(t) ==
    /\ thr[t].pc = "lock"
    /\ CanAcquire(t)
    /\ queue_lock' = t
    /\ LET popped == ack_order(serial_queue, thr[t].order_id)
       IN  CASE thr[t].op = "add" ->
                 /\ serial_queue' = QueueAppend(serial_queue, thr[t].trade[1])
                 /\ thr' = [thr EXCEPT ![t].pc = "add_append",
                                       ![t].expect = Result(FALSE, <<>>, FALSE)]
             [] thr[t].op = "get" ->
                 /\ serial_queue' = serial_queue
                 /\ thr' = [thr EXCEPT ![t].pc = "get_test",
                                       ![t].expect = Result(FALSE,
                                            get_next_order(serial_queue), FALSE)]
             [] OTHER ->
                 /\ serial_queue' = popped.queue
                 /\ thr' = [thr EXCEPT ![t].pc = "ack_scan", ![t].i = 1,
                                       ![t].expect = Result(popped.found, <<>>, FALSE)]
    /\ UNCHANGED <<order_queue, ncalls, seqvars>>

\* The call is over: the lock is released on leaving the with block.
Finish(t, result) ==
    /\ thr' = [thr EXCEPT ![t].pc = "idle", ![t].result = result]
    /\ queue_lock' = 0

\* order_queue.append(trade) (line 157).
AddAppend(t) ==
    /\ thr[t].pc = "add_append"
    /\ order_queue' = Append(order_queue, thr[t].trade[1])
    /\ Finish(t, Result(FALSE, <<>>, FALSE))
    /\ UNCHANGED <<ncalls, serial_queue, seqvars>>

\* `... if order_queue else None` (line 168): the truth test.
GetTest(t) ==
    /\ thr[t].pc = "get_test"
    /\ IF order_queue # <<>>
       THEN /\ thr' = [thr EXCEPT ![t].pc = "get_index"]
            /\ UNCHANGED queue_lock
       ELSE Finish(t, Result(FALSE, <<>>, FALSE))
    /\ UNCHANGED <<order_queue, ncalls, serial_queue, seqvars>>

\* `order_queue[0]` (line 168): IndexError on a list that is empty by now.
GetIndex(t) ==
    /\ thr[t].pc = "get_index"
    /\ IF order_queue # <<>>
       THEN Finish(t, Result(FALSE, <<order_queue[1]>>, FALSE))
       ELSE Finish(t, Result(FALSE, <<>>, TRUE))
    /\ UNCHANGED <<order_queue, ncalls, serial_queue, seqvars>>

\* One round of `for i, o in enumerate(order_queue)` (lines 176-177): the list
\* is read as it is now; the loop ends when i is past its end.
AckScan(t) ==
    /\ thr[t].pc = "ack_scan"
    /\ IF thr[t].i > Len(order_queue)
       THEN Finish(t, Result(FALSE, <<>>, FALSE))
       ELSE /\ thr' = IF order_queue[thr[t].i].id = thr[t].order_id
                      THEN [thr EXCEPT ![t].pc = "ack_pop"]
                      ELSE [thr EXCEPT ![t].i = thr[t].i + 1]
            /\ UNCHANGED queue_lock
    /\ UNCHANGED <<order_queue, ncalls, serial_queue, seqvars>>

\* order_queue.pop(i); return True (lines 178-179): IndexError when the list
\* has shrunk below i.
AckPop(t) ==
    /\ thr[t].pc = "ack_pop"
    /\ IF thr[t].i <= Len(order_queue)
       THEN /\ order_queue' = RemoveAt(order_queue, thr[t].i)
            /\ Finish(t, Result(TRUE, <<>>, FALSE))
       ELSE /\ order_queue' = order_queue
            /\ Finish(t, Result(FALSE, <<>>, TRUE))
    /\ UNCHANGED <<ncalls, serial_queue, seqvars>>

NextConc ==
    \E t \in Threads :
        \/ StartAdd(t)
        \/ StartGet(t)
        \/ StartAck(t)
        \/ Acquire(t)
        \/ AddAppend(t)
        \/ GetTest(t)
        \/ GetIndex(t)
        \/ AckScan(t)
        \/ AckPop(t)

SpecConc == InitC /\ [][NextConc]_vars

\* ------------------------------------------- request threads with their sinks
\* Flask serves every request on a thread of its own; a handler is the queue
\* helper (under queue_lock) followed by its sink calls. thr[t].pc is where the
\* thread is: "wait" at `with queue_lock:`, "held" inside the with block, "db"
\* at the call of insert_trade_db / update_trade_status, "sheet" at the call of
\* append_sheet_row. A sink call that never returns is a thread that stays at
\* "db" or "sheet".

\* The id the requests of the threads carry.
ThreadIds == {"a"}

\* A faulty helper: the sink calls are made inside the with block, the thread
\* still holds queue_lock after the queue has been read or changed.
LockAfterBody_held(t) == t

\* Leaving the with block (lines 156-158, 167-168, 175-180) releases queue_lock
\* before any sink call is made.
LockAfterBody(t) == 0

\* Both sinks are on and reachable.
InitH ==
    /\ InitConc
    /\ order_queue = <<>>
    /\ trades = EmptyTable
    /\ sheet = <<>>
    /\ clock = 0
    /\ WRITE_TO_DB = TRUE
    /\ WRITE_TO_SHEET = TRUE
    /\ last = [op |-> "none", code |-> 0, order |-> <<>>]
    /\ nreq = 0
    /\ enqueued = <<>>
    /\ returned = {}
    /\ acked = {}

\* What no step of a request thread changes.
hfixed == <<clock, WRITE_TO_DB, WRITE_TO_SHEET, last, nreq, serial_queue>>

\* POST /webhook with a valid payload arrives: the trade is built (lines 260-269)
\* and add_order_to_queue is entered.
ReqWebhook(t) ==
    /\ thr[t].pc = "idle"
    /\ ncalls < MaxCalls
    /\ \E id \in ThreadIds :
          thr' = [thr EXCEPT ![t] = [Idle EXCEPT !.pc = "wait", !.op = "webhook",
                      !.trade = <<Trade(ncalls + 1, id, "BUY", "EURUSD")>>]]
    /\ ncalls' = ncalls + 1
    /\ UNCHANGED <<order_queue, trades, sheet, queue_lock, enqueued, returned, acked, hfixed>>

\* GET /pending arrives: get_next_order is entered.
ReqPending(t) ==
    /\ thr[t].pc = "idle"
    /\ ncalls < MaxCalls
    /\ thr' = [thr EXCEPT ![t] = [Idle EXCEPT !.pc = "wait", !.op = "pending"]]
    /\ ncalls' = ncalls + 1
    /\ UNCHANGED <<order_queue, trades, sheet, queue_lock, enqueued, returned, acked, hfixed>>

\* GET /pending/ack?id=... arrives: ack_order is entered.
ReqAck(t) ==
    /\ thr[t].pc = "idle"
    /\ ncalls < MaxCalls
    /\ \E id \in ThreadIds :
          thr' = [thr EXCEPT ![t] = [Idle EXCEPT !.pc = "wait", !.op = "ack",
                                                 !.order_id = id]]
    /\ ncalls' = ncalls + 1
    /\ UNCHANGED <<order_queue, trades, sheet, queue_lock, enqueued, returned, acked, hfixed>>

\* `with queue_lock:` the thread gets the lock as soon as no thread holds it.
EnterLock(t) ==
    /\ thr[t].pc = "wait"
    /\ CanAcquire(t)
    /\ queue_lock' = t
    /\ thr' = [thr EXCEPT ![t].pc = "held"]
    /\ UNCHANGED <<order_queue, trades, sheet, ncalls, enqueued, returned, acked, hfixed>>

\* add_order_to_queue, the with block (lines 156-157); the sink calls follow.
AddLocked(t) ==
    /\ thr[t].pc = "held"
    /\ thr[t].op = "webhook"
    /\ order_queue' = QueueAppend(order_queue, thr[t].trade[1])
    /\ enqueued' = Append(enqueued, thr[t].trade[1])
    /\ queue_lock' = LockAfterBody(t)
    /\ thr' = [thr EXCEPT ![t].pc = "db"]
    /\ UNCHANGED <<trades, sheet, ncalls, returned, acked, hfixed>>

\* get_next_order (lines 166-168), then `if order:` of pending (line 284): with
\* no order the handler answers 204 at once.
GetLocked(t) ==
    /\ thr[t].pc = "held"
    /\ thr[t].op = "pending"
    /\ queue_lock' = LockAfterBody(t)
    /\ LET order == get_next_order(order_queue)
       IN  thr' = IF order = <<>>
                  THEN [thr EXCEPT ![t] = Idle]
                  ELSE [thr EXCEPT ![t].pc = "db",
                                   ![t].result = Result(FALSE, order, FALSE)]
    /\ UNCHANGED <<order_queue, trades, sheet, ncalls, enqueued, returned, acked, hfixed>>

\* ack_order (lines 174-180), then `if ack_order(order_id):` of ack (line 301):
\* with no such order the handler answers 404 at once.
AckLocked(t) ==
    /\ thr[t].pc = "held"
    /\ thr[t].op = "ack"
    /\ queue_lock' = LockAfterBody(t)
    /\ LET popped == ack_order(order_queue, thr[t].order_id)
       IN  /\ order_queue' = popped.queue
           /\ acked' = acked \cup (Oids(order_queue) \ Oids(popped.queue))
           /\ thr' = IF popped.found
                      THEN [thr EXCEPT ![t].pc = "db"]
                      ELSE [thr EXCEPT ![t] = Idle]
    /\ UNCHANGED <<trades, sheet, ncalls, enqueued, returned, hfixed>>

\* The call of the table returns: insert_trade_db(trade) (line 160, an exception
\* ends add_order_to_queue), update_trade_status(order["id"], "sent_to_ea")
\* (line 285) or update_trade_status(order_id, "executed") (line 302).
DbCall(t) ==
    /\ thr[t].pc = "db"
    /\ LET ins == insert_trade_db(trades, thr[t].trade[1], clock, TRUE)
           id == IF thr[t].op = "pending" THEN thr[t].result.order[1].id
                 ELSE thr[t].order_id
           upd == update_trade_status(
                      trades, id,
                      IF thr[t].op = "pending" THEN "sent_to_ea" ELSE "executed",
                      clock, TRUE)
       IN  IF thr[t].op = "webhook"
           THEN /\ trades' = ins.trades
                /\ thr' = IF ins.raised
                           THEN [thr EXCEPT ![t] = Idle]
                           ELSE [thr EXCEPT ![t].pc = "sheet"]
           ELSE /\ trades' = upd.trades
                /\ thr' = [thr EXCEPT ![t].pc = "sheet"]
    /\ UNCHANGED <<order_queue, sheet, queue_lock, ncalls, enqueued, returned, acked, hfixed>>

\* The call of append_sheet_row returns (lines 162, 286, 303) and the handler
\* answers: pending hands the order to its caller.
SheetCall(t) ==
    /\ thr[t].pc = "sheet"
    /\ LET row == CASE thr[t].op = "webhook" ->
                        SheetRow(thr[t].trade[1].id, "queued",
                                 thr[t].trade[1].action, thr[t].trade[1].symbol)
                    [] thr[t].op = "pending" ->
                        SheetRow(thr[t].result.order[1].id, "sent_to_ea",
                                 thr[t].result.order[1].action,
                                 thr[t].result.order[1].symbol)
                    [] OTHER ->
                        SheetRow(thr[t].order_id, "executed", NoneVal, NoneVal)
       IN  sheet' = append_sheet_row(sheet, row, TRUE)
    /\ returned' = returned \cup Oids(thr[t].result.order)
    /\ thr' = [thr EXCEPT ![t] = Idle]
    /\ UNCHANGED <<order_queue, trades, queue_lock, ncalls, enqueued, acked, hfixed>>

NextH ==
    \E t \in Threads :
        \/ ReqWebhook(t)
        \/ ReqPending(t)
        \/ ReqAck(t)
        \/ EnterLock(t)
        \/ AddLocked(t)
        \/ GetLocked(t)
        \/ AckLocked(t)
        \/ DbCall(t)
        \/ SheetCall(t)

\* The scheduler lets every thread that can take the lock, or that holds it, run;
\* nothing is assumed of the sinks: any sink call may take forever.
FairH ==
    \A t \in Threads :
        /\ WF_vars(EnterLock(t))
        /\ WF_vars(AddLocked(t) \/ GetLocked(t) \/ AckLocked(t))

SpecH == InitH /\ [][NextH]_vars /\ FairH

\* ------------------------------------------------------------------ claims
\* The properties below are stated for every reachable state and, where they
\* speak of a call, for every request that can be made in that state: the
\* handler is applied to the state and its outcome is examined.

\* No two trades of the list share an id.
DistinctIds(q) == \A i, j \in 1..Len(q) : i # j => q[i].id # q[j].id

\* Some trade of the list has the id.
HasId(q, id) == \E i \in 1..Len(q) : q[i].id = id

\* The id of the trade a webhook request builds in the current state.
RequestId(r) == GetStr(r.id, TvId(clock))

\* What the caller and later callers can observe of a handler's outcome.
Observable(out) == <<out.queue, out.code, out.order>>

\* C1: as long as nothing has been acknowledged, and the enqueued orders have
\* pairwise distinct ids, the queue is exactly the sequence of the orders passed
\* to add_order_to_queue, in call order (whatever GET /pending calls came between).
C1_EnqueuedInArrivalOrder ==
    (acked = {} /\ DistinctIds(enqueued)) => order_queue = enqueued

\* C1 happens: two orders with distinct ids were enqueued, with a GET /pending
\* that returned the first one before the second arrived, and no acknowledge.
C1_Witness ==
    /\ acked = {}
    /\ Len(enqueued) = 2
    /\ DistinctIds(enqueued)
    /\ returned # {}
    /\ last.op = "webhook"
    /\ last.code = 200

\* C2: the orders in the queue have pairwise distinct ids, and a webhook request
\* that carries the id of an order in the queue is refused and leaves the queue
\* as it is.
C2_DuplicateIdRejected ==
    /\ DistinctIds(order_queue)
    /\ \A r \in WebhookRequests, dbOk \in DbOutcomes, shOk \in SheetOutcomes :
          LET out == webhook(r.jsonOk, r.secretOk, r.id, r.action, r.symbol, dbOk, shOk)
          IN  (r.jsonOk /\ r.secretOk /\ HasId(order_queue, RequestId(r)))
                  => (out.code # 200 /\ out.queue = order_queue)

\* C3: on a non-empty queue GET /pending answers with the head order and leaves
\* the queue (members and order) as it is, so consecutive calls return the same order.
C3_PeekReturnsHeadAndKeepsIt ==
    order_queue # <<>> =>
        \A dbOk \in DbOutcomes, shOk \in SheetOutcomes :
            LET out == pending(TRUE, dbOk, shOk)
            IN  /\ out.code = 200
                /\ out.order = <<order_queue[1]>>
                /\ out.queue = order_queue

\* C4: on an empty queue GET /pending answers 204 (nothing pending) with no
\* order, leaves the queue empty and writes nothing to the table or the sheet.
C4_EmptyPeekHasNoEffect ==
    order_queue = <<>> =>
        \A dbOk \in DbOutcomes, shOk \in SheetOutcomes :
            LET out == pending(TRUE, dbOk, shOk)
            IN  /\ out.code = 204
                /\ out.order = <<>>
                /\ out.queue = <<>>
                /\ out.trades = trades
                /\ out.sheet = sheet

\* C4 happens: with both sinks on, an order was enqueued and acknowledged, and
\* GET /pending then found the queue empty.
C4_Witness ==
    /\ last.op = "pending"
    /\ last.code = 204
    /\ order_queue = <<>>
    /\ enqueued # <<>>
    /\ WRITE_TO_DB
    /\ WRITE_TO_SHEET

\* C5: an order in the queue has status `sent` once GET /pending has returned
\* it, and status `queued` as long as it has not.
C5_StatusSentAfterPeek ==
    \A i \in 1..Len(order_queue) :
        StatusOf(order_queue[i]) =
            IF order_queue[i].oid \in returned THEN "sent" ELSE "queued"

\* C6: GET /pending/ack with the id of an order in the queue answers 200 and
\* leaves the queue without one order of that id, the others in their order
\* (so the head of what is left is what the next GET /pending is about).
C6_AckRemovesExactlyThatOrder ==
    \A arg \in AckArgs \ {<<>>}, dbOk \in DbOutcomes, shOk \in SheetOutcomes :
        HasId(order_queue, arg[1]) =>
            LET out == ack(TRUE, arg, dbOk, shOk)
            IN  /\ out.code = 200
                /\ \E i \in 1..Len(order_queue) :
                      /\ order_queue[i].id = arg[1]
                      /\ out.queue = RemoveAt(order_queue, i)

HeadOf(q) == IF q = <<>> THEN <<>> ELSE <<q[1]>>

\* C8: the head is the earliest enqueued order still in the queue; every
\* GET /pending returns it; and no request replaces it as head except an
\* acknowledge of its id.
C8_HeadOfLineBlocking ==
    order_queue # <<>> =>
        /\ \A i \in 1..Len(order_queue) : order_queue[1].oid <= order_queue[i].oid
        /\ \A dbOk \in DbOutcomes, shOk \in SheetOutcomes :
              /\ LET out == pending(TRUE, dbOk, shOk)
                 IN  /\ out.code = 200
                     /\ out.order = HeadOf(order_queue)
                     /\ HeadOf(out.queue) = HeadOf(order_queue)
              /\ \A r \in WebhookRequests :
                    LET out == webhook(r.jsonOk, r.secretOk, r.id, r.action, r.symbol,
                                       dbOk, shOk)
                    IN  HeadOf(out.queue) = HeadOf(order_queue)
              /\ \A r \in AckRequests :
                    LET out == ack(r.secretOk, r.arg, dbOk, shOk)
                    IN  HeadOf(out.queue) # HeadOf(order_queue)
                            => r.arg = <<order_queue[1].id>>

\* C9: whether the sinks fail or not, every request leaves the same queue and
\* gets the same response (status code and order).
C9_SinkFailureInvisible ==
    \A dbOk \in DbOutcomes, shOk \in SheetOutcomes :
        /\ \A r \in WebhookRequests :
              Observable(webhook(r.jsonOk, r.secretOk, r.id, r.action, r.symbol, dbOk, shOk))
                  = Observable(webhook(r.jsonOk, r.secretOk, r.id, r.action, r.symbol,
                                       TRUE, TRUE))
        /\ Observable(pending(TRUE, dbOk, shOk)) = Observable(pending(TRUE, TRUE, TRUE))
        /\ \A r \in AckRequests :
              Observable(ack(r.secretOk, r.arg, dbOk, shOk))
                  = Observable(ack(r.secretOk, r.arg, TRUE, TRUE))

\* C10: the calls of the request threads are atomic. Every finished call has
\* returned what it returns in the serial run that makes the calls one at a
\* time, in the order in which they took queue_lock, and whenever the lock is
\* free the queue is the queue of that serial run.
C10_Linearizable ==
    /\ \A t \in Threads : thr[t].pc = "idle" => thr[t].result = thr[t].expect
    /\ queue_lock = 0 => order_queue = serial_queue

\* C10 happens: two threads are inside ack_order for the same id, which one
\* order in the queue has; one has found the order and is about to pop it, the
\* other waits for the lock.
C10_Witness ==
    \E t, u \in Threads :
        /\ t # u
        /\ thr[t].op = "ack" /\ thr[t].pc = "ack_pop"
        /\ thr[u].op = "ack" /\ thr[u].pc = "lock"
        /\ thr[t].order_id = thr[u].order_id
        /\ Cardinality({i \in 1..Len(order_queue) :
                           order_queue[i].id = thr[t].order_id}) = 1

\* C11: at most one order still in the queue has been returned by GET /pending,
\* and that order is the head of the queue.
C11_AtMostOneInFlight ==
    LET inflight == {i \in 1..Len(order_queue) : order_queue[i].oid \in returned}
    IN  /\ Cardinality(inflight) <= 1
        /\ inflight \subseteq {1}

\* C11 happens: two orders wait and GET /pending has returned the first of them.
C11_Witness ==
    /\ Len(order_queue) = 2
    /\ order_queue[1].oid \in returned
    /\ last.op = "pending"
    /\ last.code = 200

\* Another request can still arrive in this state.
MoreRequests == nreq < MaxReq

\* The payloads of C12: every way of sending or leaving out action and symbol,
\* JSON null included.
C12Payloads ==
    [jsonOk : {TRUE}, secretOk : {TRUE}, id : {JStr("a")},
     action : ActionInputs \cup {JNull}, symbol : SymbolInputs \cup {JNull}]

\* The payload field is missing (no such key) or empty (the empty string).
MissingOrEmpty(v) == v = Absent \/ v = JStr("")

\* A field of a trade holds a non-empty value.
NonEmpty(s) == s # "" /\ s # NoneVal

C13_AckOnlyAfterPeek ==
    /\ acked \subseteq returned
    /\ \A k \in 1..Len(sheet) :
          sheet[k].event = "executed" =>
              \E j \in 1..(k - 1) :
                  sheet[j].event = "sent_to_ea" /\ sheet[j].id = sheet[k].id

\* C13 as amended: an order is acknowledged only while it is in the queue,
\* whether or not GET /pending has returned it. Acknowledged and returned orders
\* were enqueued; an acknowledged order is no longer in the queue and is not
\* returned by GET /pending again; and an acknowledge (any that can arrive) that
\* answers 200 or writes `executed` to the table or the sheet has removed one
\* order of that id.
C13_AckOnlyQueuedOrders ==
    /\ acked \subseteq Oids(enqueued)
    /\ returned \subseteq Oids(enqueued)
    /\ acked \cap Oids(order_queue) = {}
    /\ MoreRequests =>
       \A dbOk \in DbOutcomes, shOk \in SheetOutcomes :
          /\ Oids(pending(TRUE, dbOk, shOk).order) \cap acked = {}
          /\ \A r \in AckRequests :
                LET out == ack(r.secretOk, r.arg, dbOk, shOk)
                IN  (out.code = 200 \/ out.trades # trades \/ out.sheet # sheet) =>
                        \E i \in 1..Len(order_queue) :
                            /\ order_queue[i].id = r.arg[1]
                            /\ out.queue = RemoveAt(order_queue, i)

\* C13 happens: with both sinks on, an order went through the whole lifecycle:
\* it was enqueued, returned by GET /pending and then acknowledged with 200.
C13_Witness ==
    /\ last.op = "ack"
    /\ last.code = 200
    /\ acked \cap returned # {}
    /\ WRITE_TO_DB
    /\ WRITE_TO_SHEET

\* C15: a webhook request without an id that is accepted gets an id that no
\* order accepted before it has, also when both arrive within the same second.
C15_GeneratedIdsUnique ==
    \A r \in WebhookRequests, dbOk \in DbOutcomes, shOk \in SheetOutcomes :
        LET out == webhook(r.jsonOk, r.secretOk, r.id, r.action, r.symbol, dbOk, shOk)
        IN  (r.id = Absent /\ out.code = 200) => ~HasId(enqueued, out.id)

\* The orders with the id that have been acknowledged.
AckedWithId(id) ==
    {k \in 1..Len(enqueued) : enqueued[k].id = id /\ enqueued[k].oid \in acked}

\* C16: every row of the table has created_at set; a row with status
\* `sent_to_ea` has sent_to_ea_at set; a row with status `executed` has
\* executed_at set; and executed_at is set only in the row of an id whose order
\* has been acknowledged.
C16_RowTimestamps ==
    \A id \in DOMAIN trades :
        /\ trades[id].status \in {"queued", "sent_to_ea", "executed"}
        /\ trades[id].created_at # Null
        /\ trades[id].status = "sent_to_ea" => trades[id].sent_to_ea_at # Null
        /\ trades[id].status = "executed" => trades[id].executed_at # Null
        /\ trades[id].executed_at # Null => AckedWithId(id) # {}

\* The sheet is the old sheet plus one row, of the event and the id.
OneRowAdded(old, new, event, id) ==
    /\ Len(new) = Len(old) + 1
    /\ SubSeq(new, 1, Len(old)) = old
    /\ new[Len(new)].event = event
    /\ new[Len(new)].id = id

\* C17: with the table and the sheet both on and the sheet reachable, every
\* request leaves the rows of the sheet as they were, and every webhook, GET
\* /pending and acknowledge answered 200 adds exactly one row after them
\* (`queued`, `sent_to_ea`, `executed`), whether the call to the table fails or not.
C17_OneLogRowPerEvent ==
    (WRITE_TO_DB /\ WRITE_TO_SHEET) =>
        \A dbOk \in DbOutcomes :
            /\ \A r \in WebhookRequests :
                  LET out == webhook(r.jsonOk, r.secretOk, r.id, r.action, r.symbol,
                                     dbOk, TRUE)
                  IN  IF out.code = 200
                      THEN OneRowAdded(sheet, out.sheet, "queued", out.id)
                      ELSE out.sheet = sheet
            /\ LET out == pending(TRUE, dbOk, TRUE)
               IN  IF out.code = 200
                   THEN OneRowAdded(sheet, out.sheet, "sent_to_ea", out.order[1].id)
                   ELSE out.sheet = sheet
            /\ \A r \in AckRequests :
                  LET out == ack(r.secretOk, r.arg, dbOk, TRUE)
                  IN  IF out.code = 200
                      THEN OneRowAdded(sheet, out.sheet, "executed", r.arg[1])
                      ELSE out.sheet = sheet

\* C18: for every order in the queue, GET /pending/ack with that order's id
\* (sinks reachable) answers 200 and removes one order of that id; for the head
\* it removes the head.
C18_EveryOrderAcknowledgeable ==
    \A i \in 1..Len(order_queue) :
        LET out == ack(TRUE, <<order_queue[i].id>>, TRUE, TRUE)
        IN  /\ out.code = 200
            /\ \E j \in 1..Len(order_queue) :
                  /\ order_queue[j].id = order_queue[i].id
                  /\ out.queue = RemoveAt(order_queue, j)
            /\ i = 1 => out.queue = Tail(order_queue)

\* The thread is inside a queue helper: at `with queue_lock:` or in the with block.
InHelper(t) == thr[t].pc \in {"wait", "held"}

\* The thread is inside a sink call.
InSinkCall(t) == thr[t].pc \in {"db", "sheet"}

\* The next step of a GET /pending that holds the lock on an empty queue ends
\* the request.
EmptyPeekEndsAtOnce ==
    \A t \in Threads :
        (thr[t].pc = "held" /\ thr[t].op = "pending" /\ order_queue = <<>>
                /\ thr'[t] # thr[t])
            => thr'[t].pc = "idle"

\* C14: a thread that is inside a sink call does not hold queue_lock; whatever
\* sink calls never return, every thread that has entered a queue helper leaves
\* it; and a GET /pending that finds the queue empty ends at once, without
\* waiting for an order.
C14_SinksOutsideLock ==
    /\ [](\A t \in Threads : InSinkCall(t) => queue_lock # t)
    /\ [][EmptyPeekEndsAtOnce]_vars
    /\ \A t \in Threads : InHelper(t) ~> ~InHelper(t)

\* C14 happens: one thread is inside a sink call while another thread holds
\* queue_lock inside a queue helper.
C14_Witness ==
    \E t, u \in Threads :
        /\ t # u
        /\ InSinkCall(t)
        /\ thr[u].pc = "held"
        /\ queue_lock = u

\* C19: once every request has finished, the row of every acknowledged order
\* (the ids being distinct) exists with status `executed`.
C19_RowFollowsLifecycle ==
    ((\A t \in Threads : thr[t].pc = "idle") /\ DistinctIds(enqueued)) =>
        \A k \in 1..Len(enqueued) :
            enqueued[k].oid \in acked =>
                /\ enqueued[k].id \in DOMAIN trades
                /\ trades[enqueued[k].id].status = "executed"

=============================================================================
